---- MODULE Spec2Model ----
(***************************************************************************)
(* Model of the WhatsApp lead-qualification webhook                         *)
(* (src/src/api/whatsapp_webhook.py and the services it calls).             *)
(*                                                                          *)
(* Python values are tagged records (JNull, JBool, JNum, JStr, JList,       *)
(* JDict); a Python dict is a function from its keys to such values, so     *)
(* that dict.get(key, default), truthiness and the TypeError/AttributeError *)
(* a wrongly typed value raises are computed as the code computes them.     *)
(* Confidence scores are kept in hundredths (0.7 is 70).                    *)
(***************************************************************************)
EXTENDS Integers, Sequences, FiniteSets, TLC

VARIABLES
    dedup,     \* Redis: the message ids (SmsMessageSid) that carry a "processed" marker
    conv,      \* Redis: conversation:<phone>, the stored history of each sender
    completed, \* Redis: the senders with a conversation_completed:<phone> marker
    leads,     \* Odoo crm.lead: the records, in id order
    tickets,   \* Odoo helpdesk.ticket: the phones tickets were created for, in id order
    outbox,    \* Twilio: number of messages accepted for each sender
    req,       \* the webhook requests: position and local variables of each
    din,      \* SpecDecide: what the oracle call produced (a raise or a parsed JSON value)
    dres,     \* SpecDecide: the analysis analyze_message_completeness returned
    dbranch,  \* SpecDecide: the branch _process_intelligent_response_optimized ran
    dpc,      \* SpecDecide: position, "in" -> "analysed" -> "dispatched"
    fin,      \* function specifications: the argument(s) of the function under check
    fout,     \* function specifications: the values it returned, in call order
    fpc       \* function specifications: position

dvars == <<din, dres, dbranch, dpc>>
fvars == <<fin, fout, fpc>>
stores == <<dedup, conv, completed, leads, tickets, outbox>>
pvars == <<dedup, conv, completed, leads, tickets, outbox, req>>
vars == <<dedup, conv, completed, leads, tickets, outbox, req, din, dres, dbranch, dpc,
          fin, fout, fpc>>

----------------------------------------------------------------------------
(* Python / JSON values *)

JNull == [t |-> "null"]
JBool(b) == [t |-> "bool", b |-> b]
JNum(n) == [t |-> "num", n |-> n]
JStr(s) == [t |-> "str", s |-> s]
JList(q) == [t |-> "list", q |-> q]
JDict(f) == [t |-> "dict", d |-> f]

EmptyDict == [k \in {} |-> JNull]

\* dict.get(k, def)
Get(d, k, def) == IF k \in DOMAIN d THEN d[k] ELSE def

\* dict.get(k): None when the key is missing
GetN(d, k) == Get(d, k, JNull)

\* d[k] = v
Put(d, k, v) == (k :> v) @@ d

\* bool(v)
Truthy(v) ==
    CASE v.t = "null" -> FALSE
      [] v.t = "bool" -> v.b
      [] v.t = "num"  -> v.n # 0
      [] v.t = "str"  -> v.s # ""
      [] v.t = "list" -> v.q # <<>>
      [] v.t = "dict" -> DOMAIN v.d # {}

\* v == "s" for a string literal s
IsStr(v, s) == v.t = "str" /\ v.s = s

\* v >= a float: defined for numbers and bools, a TypeError for anything else
Comparable(v) == v.t \in {"num", "bool"}
NumOf(v) == IF v.t = "bool" THEN (IF v.b THEN 100 ELSE 0) ELSE v.n

----------------------------------------------------------------------------
(* AIClassifier, src/src/services/ai_classifier.py *)

HotMinConfidence == 70
WarmMinConfidence == 50
FallbackConfidence == 10

GenericIntent == "informacion_general"
DefaultQuestion == "En que puedo ayudarte?"
FallbackReply == "Hola! Soy el asistente de COLINEAL. En que puedo ayudarte hoy?"

DetermineAction(inner) ==
    IF Truthy(Get(inner, "is_support_request", JBool(FALSE))) THEN "transfer_to_support"
    ELSE IF Truthy(Get(inner, "has_sufficient_info", JBool(FALSE))) THEN "create_lead"
    ELSE "continue_conversation"

\* _ensure_compatibility raises when the parsed value is no dict, or its
\* "analysis" entry is present and is no dict (None.get, str.get, ...)
EnsureCompatibilityRaises(p) ==
    \/ p.t # "dict"
    \/ /\ "analysis" \in DOMAIN p.d
       /\ p.d["analysis"].t # "dict"

EnsureCompatibility(d) ==
    LET inner == Get(d, "analysis", JDict(EmptyDict)).d
        a1 == IF "recommended_action" \notin DOMAIN d
              THEN Put(d, "recommended_action", JStr(DetermineAction(inner)))
              ELSE d
        a2 == Put(a1, "has_sufficient_info", Get(inner, "has_sufficient_info", JBool(FALSE)))
        a3 == Put(a2, "extracted_data", Get(inner, "extracted_data", JDict(EmptyDict)))
        a4 == Put(a3, "confidence_score", Get(inner, "confidence_score", JNum(0)))
        a5 == Put(a4, "quality_assessment", Get(inner, "quality_assessment", JStr("cold")))
        a6 == Put(a5, "is_support_request", Get(inner, "is_support_request", JBool(FALSE)))
        a7 == Put(a6, "conversation_stage", Get(inner, "conversation_stage", JStr("initial")))
        a8 == Put(a7, "next_question", Get(a7, "suggested_reply", JStr(DefaultQuestion)))
    IN  Put(a8, "natural_response", Get(a8, "suggested_reply", JStr(DefaultQuestion)))

\* the if/elif chain of _add_professional_logic
HotRuleMutNoThreshold(a) ==
    /\ IsStr(Get(a, "quality_assessment", JStr("cold")), "hot")
    /\ NumOf(Get(a, "confidence_score", JNum(0))) > HotMinConfidence
    /\ Truthy(Get(a, "has_sufficient_info", JBool(FALSE)))

HotRule(a) ==
    /\ IsStr(Get(a, "quality_assessment", JStr("cold")), "hot")
    /\ NumOf(Get(a, "confidence_score", JNum(0))) >= HotMinConfidence
    /\ Truthy(Get(a, "has_sufficient_info", JBool(FALSE)))

WarmRuleMutAnyConfidence(a) ==
    IsStr(Get(a, "quality_assessment", JStr("cold")), "warm")

WarmRule(a) ==
    /\ IsStr(Get(a, "quality_assessment", JStr("cold")), "warm")
    /\ NumOf(Get(a, "confidence_score", JNum(0))) >= WarmMinConfidence

FinalActionMutHotFirst(a) ==
    IF Comparable(Get(a, "confidence_score", JNum(0))) /\ HotRule(a) THEN "create_lead_immediate"
    ELSE IF Truthy(Get(a, "is_support_request", JBool(FALSE))) THEN "transfer_to_helpdesk"
    ELSE IF WarmRule(a) THEN "nurture_and_qualify"
    ELSE "educate_and_build_interest"

FinalAction(a) ==
    IF Truthy(Get(a, "is_support_request", JBool(FALSE))) THEN "transfer_to_helpdesk"
    ELSE IF HotRule(a) THEN "create_lead_immediate"
    ELSE IF WarmRule(a) THEN "nurture_and_qualify"
    ELSE "educate_and_build_interest"

\* confidence >= 0.7 / >= 0.5 is evaluated only after quality == "hot" /
\* quality == "warm" held and the support test failed: a TypeError there
FinalActionRaises(a) ==
    /\ ~Truthy(Get(a, "is_support_request", JBool(FALSE)))
    /\ \/ IsStr(Get(a, "quality_assessment", JStr("cold")), "hot")
       \/ IsStr(Get(a, "quality_assessment", JStr("cold")), "warm")
    /\ ~Comparable(Get(a, "confidence_score", JNum(0)))

CalculateMissingInfoRaises(a) ==
    Get(a, "extracted_data", JDict(EmptyDict)).t # "dict"

CalculateMissingInfo(a) ==
    LET extracted == Get(a, "extracted_data", JDict(EmptyDict)).d
        m1 == IF ~Truthy(GetN(extracted, "name")) THEN <<"contact_info">> ELSE <<>>
        m2 == IF ~Truthy(GetN(extracted, "product_interest"))
              THEN <<"specific_product">> ELSE <<>>
        m3 == IF \/ ~Truthy(GetN(extracted, "intent"))
                 \/ IsStr(GetN(extracted, "intent"), GenericIntent)
              THEN <<"clear_intent">> ELSE <<>>
    IN  m1 \o m2 \o m3

AddProfessionalLogicRaises(a) ==
    FinalActionRaises(a) \/ CalculateMissingInfoRaises(a)

AddProfessionalLogic(a) ==
    LET b1 == Put(a, "final_action", JStr(FinalAction(a)))
        b2 == Put(b1, "lead_quality", Get(a, "quality_assessment", JStr("cold")))
    IN  Put(b2, "missing_for_lead", JList(CalculateMissingInfo(b2)))

FallbackInner ==
    [has_sufficient_info |-> JBool(FALSE),
     missing_info        |-> JList(<<"all_info">>),
     extracted_data      |-> JDict(EmptyDict),
     confidence_score    |-> JNum(FallbackConfidence),
     quality_assessment  |-> JStr("cold"),
     is_support_request  |-> JBool(FALSE),
     conversation_stage  |-> JStr("initial")]

FallbackAnalysis ==
    [analysis            |-> JDict(FallbackInner),
     suggested_reply     |-> JStr(FallbackReply),
     recommended_action  |-> JStr("continue_conversation"),
     has_sufficient_info |-> JBool(FALSE),
     extracted_data      |-> JDict(EmptyDict),
     confidence_score    |-> JNum(FallbackConfidence),
     quality_assessment  |-> JStr("cold"),
     is_support_request  |-> JBool(FALSE),
     conversation_stage  |-> JStr("initial"),
     next_question       |-> JStr(FallbackReply),
     natural_response    |-> JStr(FallbackReply),
     final_action        |-> JStr("educate_and_build_interest"),
     lead_quality        |-> JStr("cold"),
     missing_for_lead    |-> JList(<<"all_info">>)]

\* what the oracle call and json.loads produced: a raise, or a JSON value
OracleRaise == [t |-> "raise"]

\* the except branch missing: the failure itself comes out of analyze
AnalyzeMutNoCatch(raw) ==
    IF raw.t = "raise" THEN raw
    ELSE IF EnsureCompatibilityRaises(raw) THEN FallbackAnalysis
    ELSE LET a == EnsureCompatibility(raw.d)
         IN  IF AddProfessionalLogicRaises(a) THEN FallbackAnalysis
             ELSE AddProfessionalLogic(a)

\* the fallback built from what went wrong instead of the fixed literal
AnalyzeMutFallbackVaries(raw) ==
    IF raw.t = "raise" THEN FallbackAnalysis
    ELSE IF EnsureCompatibilityRaises(raw)
    THEN [FallbackAnalysis EXCEPT !.confidence_score = JNum(0)]
    ELSE LET a == EnsureCompatibility(raw.d)
         IN  IF AddProfessionalLogicRaises(a) THEN FallbackAnalysis
             ELSE AddProfessionalLogic(a)

AnalyzeMessageCompleteness(raw) ==
    IF raw.t = "raise" THEN FallbackAnalysis
    ELSE IF EnsureCompatibilityRaises(raw) THEN FallbackAnalysis
    ELSE LET a == EnsureCompatibility(raw.d)
         IN  IF AddProfessionalLogicRaises(a) THEN FallbackAnalysis
             ELSE AddProfessionalLogic(a)

ShouldCreateLead(a) ==
    \/ IsStr(GetN(a, "final_action"), "create_lead_immediate")
    \/ /\ IsStr(GetN(a, "recommended_action"), "create_lead")
       /\ Truthy(Get(a, "has_sufficient_info", JBool(FALSE)))
       /\ ~Truthy(Get(a, "is_support_request", JBool(FALSE)))

----------------------------------------------------------------------------
(* _process_intelligent_response_optimized, src/src/api/whatsapp_webhook.py *)

WebhookFinalAction(a) ==
    Get(a, "final_action", Get(a, "recommended_action", JStr("continue_conversation")))

NaturalResponse(a) ==
    Get(a, "natural_response", Get(a, "suggested_reply", JStr("")))

\* the branch of the if/elif chain at lines 152-162, named by the action
\* the branch's handler reports
Branch(a) ==
    IF \/ IsStr(WebhookFinalAction(a), "transfer_to_helpdesk")
       \/ Truthy(Get(a, "is_support_request", JBool(FALSE)))
    THEN "transfer_to_helpdesk"
    ELSE IF IsStr(WebhookFinalAction(a), "create_lead_immediate") \/ ShouldCreateLead(a)
    THEN "create_lead_immediate"
    ELSE IF IsStr(WebhookFinalAction(a), "nurture_and_qualify")
    THEN "nurture_and_qualify"
    ELSE "educate_and_build_interest"

----------------------------------------------------------------------------
(* Senders and messages *)

MaxReq == 2

Reqs == 1..MaxReq

\* the From field of a WhatsApp message, as the tokens the code handles
\* strings that are searched or rewritten are sequences of characters
TransportPrefix == <<"w", "h", "a", "t", "s", "a", "p", "p", ":">>

PhoneA == TransportPrefix \o <<"+", "5", "9">>
PhoneB == TransportPrefix \o <<"+", "9">>

Phones == {PhoneA, PhoneB}

\* SmsMessageSid values; the provider's id fixes the sender
MsgIds == {"m1", "m2", "m3"}

SenderOf(m) == IF m = "m3" THEN PhoneB ELSE PhoneA

\* Body of the message with id m
BodyOf(m) == m

----------------------------------------------------------------------------
(* RedisService, src/src/services/redis_service.py *)

IsMessageProcessedMutNever(marked, wamid) == FALSE

IsMessageProcessed(marked, wamid) == wamid \in marked

MarkMessageAsProcessedMutNoMark(marked, wamid) == marked

MarkMessageAsProcessed(marked, wamid) == marked \cup {wamid}

----------------------------------------------------------------------------
(* ConversationService, src/src/services/conversation_service.py *)

MaxMessagesPerConversation == 50

\* json.loads of the stored value, [] when the key holds nothing
GetConversationHistory(store, phone) == store[phone]

\* the new_message dict (its timestamp is left out)
NewMessage(message, type, analysis) ==
    [message |-> message, type |-> type, analysis |-> analysis]

\* history[-max_messages_per_conversation:]
LimitHistory(h) ==
    IF Len(h) > MaxMessagesPerConversation
    THEN SubSeq(h, Len(h) - MaxMessagesPerConversation + 1, Len(h))
    ELSE h

\* the value add_message_to_conversation writes, from the history it read
AppendedHistory(h, turn) == LimitHistory(Append(h, turn))

EmptyCollected ==
    [name |-> JNull, email |-> JNull, product_interest |-> {}, location |-> JNull,
     budget_range |-> JNull, urgency |-> JNull, specific_needs |-> <<>>]

InSeq(x, q) == \E i \in 1..Len(q) : q[i] = x

SeqToSet(q) == {q[i] : i \in 1..Len(q)}

\* a scalar of the turn replaces the collected one also when it is null
CollectTurnMutNullErases(collected, turn) ==
    LET extracted == Get(turn.analysis, "extracted_data", JDict(EmptyDict)).d
    IN  [collected EXCEPT !.name = GetN(extracted, "name"),
                          !.email = GetN(extracted, "email"),
                          !.location = GetN(extracted, "location"),
                          !.budget_range = GetN(extracted, "budget_range"),
                          !.urgency = GetN(extracted, "urgency")]

\* one pass of the loop of _extract_collected_data
CollectTurn(collected, turn) ==
    LET extracted == Get(turn.analysis, "extracted_data", JDict(EmptyDict)).d
        Last(k) == IF Truthy(GetN(extracted, k)) THEN extracted[k] ELSE collected[k]
        pi == GetN(extracted, "product_interest")
        intent == GetN(extracted, "intent")
    IN  [name             |-> Last("name"),
         email            |-> Last("email"),
         location         |-> Last("location"),
         budget_range     |-> Last("budget_range"),
         urgency          |-> Last("urgency"),
         product_interest |-> IF Truthy(pi) /\ pi.t = "list"
                              THEN collected.product_interest \cup SeqToSet(pi.q)
                              ELSE collected.product_interest,
         specific_needs   |-> IF Truthy(intent) /\ ~InSeq(intent, collected.specific_needs)
                              THEN Append(collected.specific_needs, intent)
                              ELSE collected.specific_needs]

\* the loop of _extract_collected_data from turn i on; every pass leaves a
\* dict with the keys of the initial one (the test also makes the pass
\* complete before the next one starts)
RECURSIVE CollectFrom(_, _, _)
CollectFrom(history, i, collected) ==
    IF i > Len(history) THEN collected
    ELSE LET next == CollectTurn(collected, history[i])
         IN  IF DOMAIN next = DOMAIN EmptyCollected
             THEN CollectFrom(history, i + 1, next)
             ELSE next

ExtractCollectedData(history) == CollectFrom(history, 1, EmptyCollected)

\* the first test for ready_for_lead, before the support test
DetermineConversationStageMutReadyFirst(history, collected) ==
    IF history = <<>> THEN "initial"
    ELSE LET has_contact == Truthy(collected.name) \/ Truthy(collected.email)
             has_interest == Cardinality(collected.product_interest) > 0
             has_clear_intent == Len(collected.specific_needs) > 0
         IN  IF has_contact /\ has_interest /\ has_clear_intent THEN "ready_for_lead"
             ELSE IF Truthy(Get(history[Len(history)].analysis, "is_support_request",
                                JBool(FALSE)))
             THEN "support"
             ELSE IF has_interest \/ has_clear_intent THEN "gathering_info"
             ELSE "qualification"

\* _determine_conversation_stage
DetermineConversationStage(history, collected) ==
    IF history = <<>> THEN "initial"
    ELSE IF Truthy(Get(history[Len(history)].analysis, "is_support_request", JBool(FALSE)))
    THEN "support"
    ELSE LET has_contact == Truthy(collected.name) \/ Truthy(collected.email)
             has_interest == Cardinality(collected.product_interest) > 0
             has_clear_intent == Len(collected.specific_needs) > 0
         IN  IF has_contact /\ has_interest /\ has_clear_intent THEN "ready_for_lead"
             ELSE IF has_interest \/ has_clear_intent THEN "gathering_info"
             ELSE "qualification"

\* get_conversation_context: its conversation_stage
ContextStage(history) ==
    IF history = <<>> THEN "initial"
    ELSE DetermineConversationStage(history, ExtractCollectedData(history))

\* get_conversation_context: the parts the webhook keeps
GetConversationContext(store, phone) ==
    LET history == GetConversationHistory(store, phone)
    IN  [is_new_conversation |-> history = <<>>,
         message_count       |-> Len(history),
         collected_data      |-> ExtractCollectedData(history)]

\* one completion key for all the senders
MarkConversationCompletedMutShared(done, phone) == done \cup Phones

\* _mark_conversation_completed: the key conversation_completed:{phone}
MarkConversationCompleted(done, phone) == done \cup {phone}

----------------------------------------------------------------------------
(* OdooService, src/src/services/odoo_service.py *)

\* phone_number.replace("whatsapp:", "").replace("+", "").replace(" ", "")
\* s.replace(pat, ""): the occurrences of pat found left to right, without
\* overlap, are removed in one pass
RECURSIVE Remove(_, _)
Remove(s, pat) ==
    IF Len(s) < Len(pat) THEN s
    ELSE IF SubSeq(s, 1, Len(pat)) = pat
    THEN Remove(SubSeq(s, Len(pat) + 1, Len(s)), pat)
    ELSE <<Head(s)>> \o Remove(Tail(s), pat)

CleanPhone(p) == Remove(Remove(Remove(p, TransportPrefix), <<"+">>), <<" ">>)

\* ('phone', 'ilike', q): q occurs in the stored phone
IlikeMatch(stored, q) ==
    \E i \in 1..(Len(stored) - Len(q) + 1) : SubSeq(stored, i, i + Len(q) - 1) = q

\* the ids search([('phone', 'ilike', clean_phone)]) can return
MatchingLeads(ls, phone) ==
    {i \in 1..Len(ls) : IlikeMatch(ls[i].phone, CleanPhone(phone))}

\* a description is the sequence of its sections: the text written at the
\* create ("data"), a "Nota Automatica" section ("note") or a "Mensaje
\* WhatsApp" section ("message"), each with the message it quotes
Section(kind, message) == [kind |-> kind, message |-> message]

\* crm.lead.create(validated_data): lead_data carries 'phone': phone_number
NewLead(phone, message) ==
    [phone |-> phone, description |-> <<Section("data", message)>>]

\* crm.lead.create(ticket_data): ticket_data has partner_phone and no phone
NewSupportLead == [phone |-> <<>>, description |-> <<Section("support", "none")>>]

\* crm.lead write(lead_id, {'description': ...})
WriteDescription(ls, id, description) == [ls EXCEPT ![id].description = description]

\* the note replaces the description it read
NoteDescriptionMutReplace(current_desc, message) == <<Section("note", message)>>

\* _add_message_note_basic, lines 219-222: new_desc = current_desc + note_text
NoteDescription(current_desc, message) == Append(current_desc, Section("note", message))

\* _update_existing_lead_basic, lines 155-158
UpdatedDescription(current_description, message) ==
    Append(current_description, Section("message", message))

\* the phones that follow "conversation:" and "conversation_completed:" in
\* a Redis key: the senders as Twilio names them, and as the management
\* endpoints name them (lines 401, 411, 426 of the webhook)
ConversationKeys == Phones \cup {Remove(p, TransportPrefix) : p \in Phones}

\* no key holds a history
NoConversations == [k \in ConversationKeys |-> <<>>]

\* pat in s, for strings kept as sequences of words
Contains(s, pat) ==
    \E i \in 1..(Len(s) - Len(pat) + 1) : SubSeq(s, i, i + Len(pat) - 1) = pat

DefaultLeadName == <<"Lead", "WhatsApp", "Sin", "Nombre">>

\* line 162: 'Sin Nombre' in current_name or 'WhatsApp' in current_name
IsGenericName(name) == Contains(name, <<"Sin", "Nombre">>) \/ Contains(name, <<"WhatsApp">>)

\* the fields of a record the update may write besides the description
UpdatableFields == {"email_from", "city", "contact_name"}

\* line 103: value is not None and str(value).strip()
HasRealValue(v) == v.t # "null" /\ ~(v.t = "str" /\ v.s \in {"", " "})

\* _validate_basic_lead_data, for the name and the updatable fields
ValidateBasicLeadData(lead_data) ==
    [f \in {"name"} \cup {g \in UpdatableFields : HasRealValue(GetN(lead_data, g))} |->
        IF f = "name" THEN Get(lead_data, "name", JStr(DefaultLeadName))
        ELSE lead_data[f]]

\* _update_existing_lead_basic, lines 160-169: update_data without the
\* description
UpdateData(current, new_data) ==
    LET rename == Truthy(GetN(new_data, "contact_name")) /\ IsGenericName(current.name.s)
    IN  [f \in {g \in UpdatableFields : Truthy(GetN(new_data, g))}
               \cup (IF rename THEN {"name"} ELSE {}) |->
            IF f = "name" THEN Get(new_data, "name", current.name) ELSE new_data[f]]

\* line 173: crm.lead write(lead_id, update_data)
WriteLead(current, update_data) ==
    [f \in DOMAIN current |-> IF f \in DOMAIN update_data THEN update_data[f]
                              ELSE current[f]]

----------------------------------------------------------------------------
(* receive_webhook and its handlers, src/src/api/whatsapp_webhook.py *)
(*                                                                          *)
(* A step of a request is one call to a shared store (Redis, Odoo) together *)
(* with the local computation and the Twilio sends that precede it: nothing *)
(* another request does can be told apart between those and the call.       *)

ReplyContact == "Un asesor te contactara pronto"

\* "contactará" in natural_response.lower()
MentionsContact(s) == s = ReplyContact

\* error: the response carries an "error" entry with the cause
NoResponse ==
    [code |-> 0, status |-> "none", action |-> "none", message_sent |-> FALSE,
     error |-> FALSE]

Response(code, status, action, sent) ==
    [code |-> code, status |-> status, action |-> action, message_sent |-> sent,
     error |-> FALSE]

\* the failure of the record store ends the request with an error
LeadFailureResponseMutAbort(sent) == Response(500, "error", "none", sent)

\* lines 309-317: the dict returned by the except branch
LeadFailureResponse(sent) ==
    [Response(200, "lead_creation_failed", "create_lead_immediate", sent)
        EXCEPT !.error = TRUE]

\* lines 216-223: the dict returned when no ticket could be created
SupportFailureResponse(sent) ==
    [Response(200, "support_transfer_failed", "transfer_to_helpdesk", sent)
        EXCEPT !.error = TRUE]

\* the X-Twilio-Signature header: absent, empty, or a text that is the
\* HMAC of some form data (mac) or not (mac empty), and is ASCII or not
NoSignature == [kind |-> "none", ascii |-> TRUE, mac |-> EmptyDict]
EmptySignature == [kind |-> "empty", ascii |-> TRUE, mac |-> EmptyDict]
NonAsciiSignature == [kind |-> "text", ascii |-> FALSE, mac |-> EmptyDict]

\* security.py, lines 17-31: the base64 HMAC-SHA1 of the url and the sorted
\* form data under the auth token
ExpectedSignature(form) == [kind |-> "text", ascii |-> TRUE, mac |-> form]

\* line 34: hmac.compare_digest raises TypeError on a non-ASCII str
ValidateTwilioSignatureRaises(signature) ==
    signature.kind = "text" /\ ~signature.ascii

\* validate_twilio_signature
ValidateTwilioSignature(signature, form) ==
    IF signature.kind \in {"none", "empty"} THEN FALSE
    ELSE signature = ExpectedSignature(form)

\* the form data Twilio posts for the message m
FormOf(m) ==
    [SmsMessageSid |-> JStr(m), Body |-> JStr(BodyOf(m)), From |-> JStr(SenderOf(m))]

\* receive_webhook, lines 47-55: the HTTP status the request is refused
\* with before the duplicate check, 0 when it is let through
Gate(signature, form) ==
    IF ValidateTwilioSignatureRaises(signature) THEN 500
    ELSE IF ~ValidateTwilioSignature(signature, form) THEN 403
    ELSE IF ~Truthy(GetN(form, "SmsMessageSid")) \/ ~Truthy(GetN(form, "Body")) THEN 400
    ELSE 0

NoContext == [is_new_conversation |-> TRUE, message_count |-> 0,
              collected_data |-> EmptyCollected]

\* no oracle call made by the request (yet)
NoOracleAnswer == [t |-> "none"]

\* sig, form: the signature header and the form data of the request;
\* unreachable: a Redis call of the request has failed;
\* desc: the description read from the record;
\* wamid, phone: the request's form fields; ctx, an, h, sent, lead: the
\* handler's locals; raw: what the oracle call of the request produced; fresh, appended, upserts: what the request has done so
\* far (passed the duplicate check, stored its user turn, record-store
\* creates/updates); out: the response
IdleRequest ==
    [pc |-> "idle", sig |-> NoSignature, form |-> EmptyDict,
     wamid |-> "none", phone |-> <<>>, ctx |-> NoContext, desc |-> <<>>,
     raw |-> NoOracleAnswer, an |-> EmptyDict, h |-> <<>>, sent |-> FALSE, lead |-> 0,
     fresh |-> FALSE, appended |-> FALSE, upserts |-> 0, unreachable |-> FALSE,
     out |-> NoResponse]

\* the request has returned: its locals are gone
Return(q, response) ==
    [q EXCEPT !.pc = "done", !.out = response, !.ctx = NoContext,
              !.raw = NoOracleAnswer, !.an = EmptyDict,
              !.h = <<>>, !.sent = FALSE, !.lead = 0, !.desc = <<>>]

\* the turn each add_message_to_conversation call of the request appends
TurnAt(q, stage) ==
    CASE stage = "user" ->
            NewMessage(BodyOf(q.wamid), "user", q.an)
      [] stage = "asst" ->
            NewMessage(NaturalResponse(q.an).s, "assistant",
                       [action |-> WebhookFinalAction(q.an),
                        response_type |-> JStr("natural")])
      [] stage = "sys" ->
            NewMessage("Lead creado exitosamente", "system",
                       [lead_created |-> JBool(TRUE), lead_id |-> JNum(q.lead)])
      [] stage = "conf" ->
            NewMessage("He registrado tu informacion", "assistant",
                       [action |-> JStr("lead_confirmation"), lead_id |-> JNum(q.lead)])
      [] stage = "err" ->
            NewMessage("Hubo un problema tecnico", "assistant",
                       [action |-> JStr("lead_creation_failed"), error |-> JStr("error")])
      [] stage = "warm" ->
            NewMessage("[SISTEMA] Lead WARM en proceso de nurturing", "system",
                       [stage |-> JStr("warm_nurturing"),
                        missing_info |-> Get(q.an, "missing_for_lead", JList(<<>>)),
                        strategy |-> JStr("continue_conversation_to_qualify")])

\* _create_hot_lead_optimized, lines 235-236: quality.upper() outside the try
LeadQuality(a) == Get(a, "lead_quality", Get(a, "quality_assessment", JStr("warm")))

\* line 284: f"{quality}_lead_created"
LeadCreatedStatus(a) == LeadQuality(a).s \o "_lead_created"

\* every analysis is taken to the lead branch
DispatchMutAlwaysLead(q) == [q EXCEPT !.pc = "lead_find"]

\* the request after the branch of lines 152-162 is chosen: the cold branch
\* returns at once, the others go on to their first store call
Dispatch(q) ==
    CASE Branch(q.an) = "transfer_to_helpdesk" -> [q EXCEPT !.pc = "support"]
      [] Branch(q.an) = "create_lead_immediate" ->
            [q EXCEPT !.pc = IF LeadQuality(q.an).t = "str" THEN "lead_find"
                             ELSE "emergency"]
      [] Branch(q.an) = "nurture_and_qualify" -> [q EXCEPT !.pc = "warm_get"]
      [] OTHER ->
            Return(q, Response(200, "cold_lead_education", "educate_and_build_interest",
                               q.sent))

\* lines 42-60: a request with a valid signature, a message id and a body
\* arrives, and the id is already marked
ReceiveDuplicate(r, m) ==
    /\ req[r].pc = "idle"
    /\ \A q \in Reqs : q < r => req[q].pc # "idle"
    /\ IsMessageProcessed(dedup, m)
    /\ req' = [req EXCEPT ![r] =
                  Return([@ EXCEPT !.sig = ExpectedSignature(FormOf(m)),
                                   !.form = FormOf(m),
                                   !.wamid = m, !.phone = SenderOf(m)],
                         Response(200, "duplicate", "none", FALSE))]
    /\ UNCHANGED <<stores, dvars, fvars>>

\* lines 42-55: a request is refused for its signature or its form data
\* (HTTPException 403 or 400, or the TypeError of the comparison: 500)
RejectRequest(r, signature, form) ==
    /\ req[r].pc = "idle"
    /\ \A q \in Reqs : q < r => req[q].pc # "idle"
    /\ Gate(signature, form) # 0
    /\ req' = [req EXCEPT ![r] =
                  Return([@ EXCEPT !.sig = signature, !.form = form],
                         Response(Gate(signature, form), "rejected", "none", FALSE))]
    /\ UNCHANGED <<stores, dvars, fvars>>

\* lines 42-62: it arrives and the id is not marked
ReceiveFresh(r, m) ==
    /\ req[r].pc = "idle"
    /\ \A q \in Reqs : q < r => req[q].pc # "idle"
    /\ ~IsMessageProcessed(dedup, m)
    /\ req' = [req EXCEPT ![r].pc = "context",
                          ![r].sig = ExpectedSignature(FormOf(m)),
                          ![r].form = FormOf(m), ![r].wamid = m,
                          ![r].phone = SenderOf(m), ![r].fresh = TRUE]
    /\ UNCHANGED <<stores, dvars, fvars>>

\* line 58: Redis is unreachable at the duplicate check, outside the try
\* block: the exception ends the request with HTTP 500
ReceiveStoreFails(r, m) ==
    /\ req[r].pc = "idle"
    /\ \A q \in Reqs : q < r => req[q].pc # "idle"
    /\ req' = [req EXCEPT ![r] =
                  Return([@ EXCEPT !.sig = ExpectedSignature(FormOf(m)),
                                   !.form = FormOf(m),
                                   !.wamid = m, !.phone = SenderOf(m),
                                   !.unreachable = TRUE],
                         Response(500, "error", "none", FALSE))]
    /\ UNCHANGED <<stores, dvars, fvars>>

\* get_conversation_history, lines 31-33, called by get_conversation_context:
\* Redis is unreachable, the error is logged and [] returned
LoadContextFails(r) ==
    /\ req[r].pc = "context"
    /\ req' = [req EXCEPT ![r].pc = "analyze",
                          ![r].ctx = GetConversationContext(NoConversations,
                                                            req[r].phone),
                          ![r].unreachable = TRUE]
    /\ UNCHANGED <<stores, dvars, fvars>>

\* lines 66-67
LoadContext(r) ==
    /\ req[r].pc = "context"
    /\ req' = [req EXCEPT ![r].pc = "analyze",
                          ![r].ctx = GetConversationContext(conv, req[r].phone)]
    /\ UNCHANGED <<stores, dvars, fvars>>

\* lines 72-81: the oracle answers (or raises) and the classifier returns
Analyze(r, raw) ==
    /\ req[r].pc = "analyze"
    /\ req' = [req EXCEPT ![r].pc = "user_get", ![r].raw = raw,
                          ![r].an = AnalyzeMessageCompleteness(raw)]
    /\ UNCHANGED <<stores, dvars, fvars>>

\* add_message_to_conversation, first half: get_conversation_history
AddMessageRead(r, stage) ==
    /\ req[r].pc = stage \o "_get"
    /\ req' = [req EXCEPT ![r].pc = stage \o "_set",
                          ![r].h = GetConversationHistory(conv, req[r].phone)]
    /\ UNCHANGED <<stores, dvars, fvars>>

\* get_conversation_history, lines 31-33, called by
\* add_message_to_conversation: Redis is unreachable and [] is returned
AddMessageReadFails(r, stage) ==
    /\ req[r].pc = stage \o "_get"
    /\ req' = [req EXCEPT ![r].pc = stage \o "_set", ![r].h = <<>>,
                          ![r].unreachable = TRUE]
    /\ UNCHANGED <<stores, dvars, fvars>>

\* the request after each add_message_to_conversation call has returned
AfterAdd(q, stage) ==
    CASE stage = "user" -> [q EXCEPT !.pc = "mark", !.appended = TRUE]
      [] stage = "asst" -> Dispatch(q)
      [] stage = "sys"  -> [q EXCEPT !.pc = "complete"]
      [] stage = "conf" ->
            Return(q, Response(200, LeadCreatedStatus(q.an), "create_lead_immediate",
                               q.sent))
      [] stage = "err"  -> [q EXCEPT !.pc = "err_send"]
      [] stage = "warm" ->
            Return(q, Response(200, "warm_lead_nurturing", "nurture_and_qualify", q.sent))

\* add_message_to_conversation, second half: append, limit, setex
AddMessageWrite(r, stage) ==
    /\ req[r].pc = stage \o "_set"
    /\ conv' = [conv EXCEPT ![req[r].phone] =
                    AppendedHistory(req[r].h, TurnAt(req[r], stage))]
    /\ req' = [req EXCEPT ![r] = AfterAdd([@ EXCEPT !.h = <<>>], stage)]
    /\ UNCHANGED <<dedup, completed, leads, tickets, outbox, dvars, fvars>>

\* add_message_to_conversation, lines 72-73: Redis is unreachable at the
\* setex, the error is logged and the caller goes on
AddMessageWriteFails(r, stage) ==
    /\ req[r].pc = stage \o "_set"
    /\ req' = [req EXCEPT ![r] =
                  [AfterAdd([@ EXCEPT !.h = <<>>], stage)
                      EXCEPT !.appended = req[r].appended, !.unreachable = TRUE]]
    /\ UNCHANGED <<stores, dvars, fvars>>

\* line 94: Redis is unreachable at the mark, inside the try block
MarkProcessedFails(r) ==
    /\ req[r].pc = "mark"
    /\ req' = [req EXCEPT ![r].pc = "emergency", ![r].unreachable = TRUE]
    /\ UNCHANGED <<stores, dvars, fvars>>

\* line 94
MarkProcessed(r) ==
    /\ req[r].pc = "mark"
    /\ dedup' = MarkMessageAsProcessed(dedup, req[r].wamid)
    /\ req' = [req EXCEPT ![r].pc = "reply"]
    /\ UNCHANGED <<conv, completed, leads, tickets, outbox, dvars, fvars>>

\* one more message accepted by Twilio for the phone, if it accepts it
Sent(box, phone, ok) == IF ok THEN [box EXCEPT ![phone] = @ + 1] ELSE box

\* _safe_send_whatsapp_message: TwilioService.send_whatsapp_message catches
\* the transport's exception and returns False, the wrapper drops that
\* result and returns True
SafeSendWhatsappMessage(ok) == TRUE

\* lines 137-146: the natural response is sent (Twilio accepts it or not),
\* then add_message_to_conversation reads the history
SendNaturalResponse(r, ok) ==
    /\ req[r].pc = "reply"
    /\ Truthy(NaturalResponse(req[r].an))
    /\ outbox' = Sent(outbox, req[r].phone, ok)
    /\ req' = [req EXCEPT ![r].pc = "asst_set",
                          ![r].sent = SafeSendWhatsappMessage(ok),
                          ![r].h = GetConversationHistory(conv, req[r].phone)]
    /\ UNCHANGED <<dedup, conv, completed, leads, tickets, dvars, fvars>>

\* lines 147-162: no natural response, the branch is chosen at once
NoNaturalResponse(r) ==
    /\ req[r].pc = "reply"
    /\ ~Truthy(NaturalResponse(req[r].an))
    /\ req' = [req EXCEPT ![r] = Dispatch([@ EXCEPT !.sent = FALSE])]
    /\ UNCHANGED <<stores, dvars, fvars>>

\* _handle_support_transfer_optimized: helpdesk.ticket, else crm.lead, else failed
HandleSupportTransfer(r, how) ==
    /\ req[r].pc = "support"
    /\ tickets' = IF how = "ticket" THEN Append(tickets, req[r].phone) ELSE tickets
    /\ leads' = IF how = "lead" THEN Append(leads, NewSupportLead) ELSE leads
    /\ req' = [req EXCEPT ![r] =
                  Return([@ EXCEPT !.upserts = IF how = "failed" THEN @ ELSE @ + 1],
                         IF how = "failed" THEN SupportFailureResponse(req[r].sent)
                         ELSE Response(200, "support_transferred",
                                       "transfer_to_helpdesk", req[r].sent))]
    /\ UNCHANGED <<dedup, conv, completed, outbox, dvars, fvars>>

\* lines 113-118: the emergency reply and HTTP 500
EmergencyResponse(r, ok) ==
    /\ req[r].pc = "emergency"
    /\ outbox' = Sent(outbox, req[r].phone, ok)
    /\ req' = [req EXCEPT ![r] = Return(@, Response(500, "error", "none", req[r].sent))]
    /\ UNCHANGED <<dedup, conv, completed, leads, tickets, dvars, fvars>>

\* create_lead_from_whatsapp, lines 52-62: connect, then _find_existing_lead
FindExistingLead(r, found) ==
    /\ req[r].pc = "lead_find"
    /\ \/ found \in MatchingLeads(leads, req[r].phone)
       \/ found = 0 /\ MatchingLeads(leads, req[r].phone) = {}
    /\ req' = [req EXCEPT ![r].pc = IF found = 0 THEN "lead_create" ELSE "lead_update",
                          ![r].lead = found]
    /\ UNCHANGED <<stores, dvars, fvars>>

\* _find_existing_lead, lines 123-126: the search fails, the exception is
\* logged and None returned, so the caller goes on to create
FindExistingLeadFails(r) ==
    /\ req[r].pc = "lead_find"
    /\ req' = [req EXCEPT ![r].pc = "lead_create", ![r].lead = 0]
    /\ UNCHANGED <<stores, dvars, fvars>>

\* the record store fails: create_lead_from_whatsapp raises (lines 77-79),
\* and the handler's except branch reads the history for its error turn
LeadStoreFails(r) ==
    /\ req[r].pc \in {"lead_find", "lead_create", "lead_update", "lead_write"}
    /\ req' = [req EXCEPT ![r].pc = "err_set", ![r].lead = 0, ![r].desc = <<>>,
                          ![r].h = GetConversationHistory(conv, req[r].phone)]
    /\ UNCHANGED <<stores, dvars, fvars>>

\* lines 69-75: create, then _add_message_note_basic
CreateLead(r) ==
    /\ req[r].pc = "lead_create"
    /\ leads' = Append(leads, NewLead(req[r].phone, BodyOf(req[r].wamid)))
    /\ req' = [req EXCEPT ![r].pc = "lead_note", ![r].lead = Len(leads) + 1,
                          ![r].upserts = @ + 1]
    /\ UNCHANGED <<dedup, conv, completed, tickets, outbox, dvars, fvars>>

\* crm.lead read(lead_id, ['description', ...]): line 212 of
\* _add_message_note_basic, line 143 of _update_existing_lead_basic
ReadDescription(r) ==
    /\ req[r].pc \in {"lead_note", "lead_update"}
    /\ req' = [req EXCEPT ![r].pc = IF req[r].pc = "lead_note" THEN "note_write"
                                    ELSE "lead_write",
                          ![r].desc = leads[req[r].lead].description]
    /\ UNCHANGED <<stores, dvars, fvars>>

\* _add_message_note_basic, lines 219-232: the description read is written
\* back with the note appended; a failure is logged and swallowed
AddMessageNote(r, ok) ==
    /\ req[r].pc = "note_write"
    /\ leads' = IF ok
                THEN WriteDescription(leads, req[r].lead,
                                      NoteDescription(req[r].desc, BodyOf(req[r].wamid)))
                ELSE leads
    /\ req' = [req EXCEPT ![r].pc = "sys_get", ![r].desc = <<>>]
    /\ UNCHANGED <<dedup, conv, completed, tickets, outbox, dvars, fvars>>

\* _update_existing_lead_basic, lines 151-176: the description read is
\* written back with the new section appended
UpdateExistingLead(r) ==
    /\ req[r].pc = "lead_write"
    /\ leads' = WriteDescription(leads, req[r].lead,
                                 UpdatedDescription(req[r].desc, BodyOf(req[r].wamid)))
    /\ req' = [req EXCEPT ![r].pc = "sys_get", ![r].upserts = @ + 1, ![r].desc = <<>>]
    /\ UNCHANGED <<dedup, conv, completed, tickets, outbox, dvars, fvars>>

\* line 266 of the webhook
NeedsConfirmation(a) ==
    ~Truthy(NaturalResponse(a)) \/ ~MentionsContact(NaturalResponse(a).s)

\* _mark_conversation_completed, then lines 266-291 of the webhook: the
\* extra confirmation is sent and its turn's history read, or the handler
\* returns
MarkCompleted(r, ok) ==
    /\ req[r].pc = "complete"
    /\ completed' = MarkConversationCompleted(completed, req[r].phone)
    /\ IF NeedsConfirmation(req[r].an)
       THEN /\ outbox' = Sent(outbox, req[r].phone, ok)
            /\ req' = [req EXCEPT ![r].pc = "conf_set",
                                  ![r].h = GetConversationHistory(conv, req[r].phone)]
       ELSE /\ outbox' = outbox
            /\ req' = [req EXCEPT ![r] =
                          Return(@, Response(200, LeadCreatedStatus(req[r].an),
                                             "create_lead_immediate", req[r].sent))]
    /\ UNCHANGED <<dedup, conv, leads, tickets, dvars, fvars>>

\* lines 307-317: the error message is sent and the failure reported
LeadCreationFailed(r, ok) ==
    /\ req[r].pc = "err_send"
    /\ outbox' = Sent(outbox, req[r].phone, ok)
    /\ req' = [req EXCEPT ![r] =
                  Return(@, LeadFailureResponse(req[r].sent))]
    /\ UNCHANGED <<dedup, conv, completed, leads, tickets, dvars, fvars>>

----------------------------------------------------------------------------
(* Oracle answers the pipeline is run on: one for each way through it *)

HotExtracted ==
    [name |-> JStr("Maria"), product_interest |-> JList(<<"sofa">>),
     intent |-> JStr("compra_sofa")]

OracleJson(quality, confidence, sufficient, support, extracted, action, reply) ==
    JDict([analysis |-> JDict([has_sufficient_info |-> JBool(sufficient),
                               extracted_data      |-> JDict(extracted),
                               confidence_score    |-> JNum(confidence),
                               quality_assessment  |-> quality,
                               is_support_request  |-> JBool(support)]),
           suggested_reply    |-> JStr(reply),
           recommended_action |-> JStr(action)])

OracleHot ==
    OracleJson(JStr("hot"), 90, TRUE, FALSE, HotExtracted, "create_lead", ReplyContact)
OracleHotNoFlag ==
    OracleJson(JStr("hot"), 90, FALSE, FALSE, EmptyDict, "continue_conversation", "reply")
OracleWarmRecommended ==
    OracleJson(JStr("warm"), 60, TRUE, FALSE, EmptyDict, "create_lead", "reply")
OracleWarmNoReply ==
    OracleJson(JStr("warm"), 60, FALSE, FALSE, EmptyDict, "continue_conversation", "")
OracleSupport ==
    OracleJson(JStr("hot"), 90, TRUE, TRUE, HotExtracted, "create_lead", "reply")
OracleNoQuality ==
    OracleJson(JNull, 90, TRUE, FALSE, EmptyDict, "create_lead", "reply")

OracleNullAnalysis == JDict("analysis" :> JNull)

PipelineOracle ==
    {OracleRaise, OracleNullAnalysis, OracleHot, OracleHotNoFlag, OracleWarmRecommended, OracleWarmNoReply,
     OracleSupport, OracleNoQuality}

----------------------------------------------------------------------------
(* The webhook under concurrent requests (worker processes sharing Redis   *)
(* and Odoo).                                                               *)

\* no function call under check
FIdle ==
    /\ fin = <<>>
    /\ fout = <<>>
    /\ fpc = "off"

DIdle ==
    /\ din = OracleRaise
    /\ dres = EmptyDict
    /\ dbranch = "none"
    /\ dpc = "off"

Init ==
    /\ dedup = {}
    /\ conv = NoConversations
    /\ completed = {}
    /\ leads = <<>>
    /\ tickets = <<>>
    /\ outbox = [p \in Phones |-> 0]
    /\ req = [r \in Reqs |-> IdleRequest]
    /\ DIdle
    /\ FIdle

\* the steps of a request whose record store and notifier answer
Step(r) ==
    \/ LoadContext(r)
    \/ \E raw \in PipelineOracle : Analyze(r, raw)
    \/ \E stage \in {"user", "sys", "warm"} : AddMessageRead(r, stage)
    \/ \E stage \in {"user", "asst", "sys", "conf", "warm"} : AddMessageWrite(r, stage)
    \/ MarkProcessed(r)
    \/ SendNaturalResponse(r, TRUE)
    \/ NoNaturalResponse(r)
    \/ \E how \in {"ticket", "lead"} : HandleSupportTransfer(r, how)
    \/ EmergencyResponse(r, TRUE)
    \/ \E found \in 0..Len(leads) : FindExistingLead(r, found)
    \/ CreateLead(r)
    \/ ReadDescription(r)
    \/ AddMessageNote(r, TRUE)
    \/ UpdateExistingLead(r)
    \/ MarkCompleted(r, TRUE)

\* the steps in which the record store or the notifier fails
StepFail(r) ==
    \/ SendNaturalResponse(r, FALSE)
    \/ HandleSupportTransfer(r, "failed")
    \/ EmergencyResponse(r, FALSE)
    \/ FindExistingLeadFails(r)
    \/ LeadStoreFails(r)
    \/ AddMessageWrite(r, "err")
    \/ AddMessageNote(r, FALSE)
    \/ MarkCompleted(r, FALSE)
    \/ \E ok \in BOOLEAN : LeadCreationFailed(r, ok)

\* the ids m1 and m2 are interchangeable: m1 is the first of them to be used
InOrder(m) == m = "m2" => \E q \in Reqs : req[q].wamid = "m1"

Next ==
    \E r \in Reqs :
        \/ \E m \in MsgIds : InOrder(m) /\ ReceiveDuplicate(r, m)
        \/ \E m \in MsgIds : InOrder(m) /\ ReceiveFresh(r, m)
        \/ Step(r)

Spec == Init /\ [][Next]_vars

\* deliveries one after the other (a request arrives when none is in
\* flight), and the record store and the notifier may fail
InFlight == {r \in Reqs : req[r].pc \notin {"idle", "done"}}

NextSeq ==
    \E r \in Reqs :
        \/ \E m \in MsgIds : InFlight = {} /\ InOrder(m) /\ ReceiveDuplicate(r, m)
        \/ \E m \in MsgIds : InFlight = {} /\ InOrder(m) /\ ReceiveFresh(r, m)
        \/ Step(r)
        \/ StepFail(r)

SpecSeq == Init /\ [][NextSeq]_vars

\* the steps in which Redis is unreachable
StepStoreFails(r) ==
    \/ LoadContextFails(r)
    \/ \E stage \in {"user", "sys", "warm"} : AddMessageReadFails(r, stage)
    \/ \E stage \in {"user", "asst", "sys", "conf", "err", "warm"} :
           AddMessageWriteFails(r, stage)
    \/ MarkProcessedFails(r)

\* deliveries one after the other; Redis, the record store and the notifier
\* may fail
NextStore ==
    \/ NextSeq
    \/ \E r \in Reqs :
           \/ \E m \in MsgIds : InFlight = {} /\ InOrder(m) /\ ReceiveStoreFails(r, m)
           \/ StepStoreFails(r)

SpecStore == Init /\ [][NextStore]_vars

\* the steps of a request that wait for Redis alone
RedisStep(r) ==
    \/ LoadContext(r)
    \/ \E stage \in {"user", "sys", "warm"} : AddMessageRead(r, stage)
    \/ \E stage \in {"user", "asst", "sys", "conf", "err", "warm"} : AddMessageWrite(r, stage)
    \/ MarkProcessed(r)
    \/ NoNaturalResponse(r)

\* deliveries one after the other in which Redis always answers; the calls
\* to the oracle (ai_classifier.py:41), the record store and Twilio are
\* blocking calls made without a timeout and under no deadline, so nothing
\* makes the steps that wait for them happen
SpecLive == SpecSeq /\ \A r \in Reqs : WF_vars(RedisStep(r))

\* reset_conversation, lines 426-431: the two keys of clean_phone are deleted
ResetConversation(phone_number) ==
    LET clean_phone == Remove(phone_number, TransportPrefix)
    IN  /\ fpc = "off"
        /\ conv' = [conv EXCEPT ![clean_phone] = <<>>]
        /\ completed' = completed \ {clean_phone}
        /\ fin' = <<phone_number>>
        /\ fpc' = "reset"
        /\ UNCHANGED <<fout, dedup, leads, tickets, outbox, req, dvars>>

\* deliveries one after the other and one call of the reset endpoint, for a
\* sender named with or without the transport prefix; fin: the phone the
\* endpoint was called with
NextReset ==
    \/ NextSeq
    \/ \E phone_number \in ConversationKeys :
           InFlight = {} /\ ResetConversation(phone_number)

SpecReset == Init /\ [][NextReset]_vars

\* the same deliveries, and requests that are not Twilio's: unsigned, signed
\* for other form data, or lacking a field
GateForms ==
    {FormOf("m1"),
     [SmsMessageSid |-> JStr("m1"), From |-> JStr(PhoneA)],
     [SmsMessageSid |-> JStr(""), Body |-> JStr("m1"), From |-> JStr(PhoneA)],
     [From |-> JStr(PhoneA)]}

GateSignatures(form) ==
    {NoSignature, EmptySignature, NonAsciiSignature, ExpectedSignature(form),
     ExpectedSignature(FormOf("m3"))}

NextGate ==
    \/ NextSeq
    \/ \E r \in Reqs : \E form \in GateForms : \E signature \in GateSignatures(form) :
           InFlight = {} /\ RejectRequest(r, signature, form)

SpecGate == Init /\ [][NextGate]_vars

----------------------------------------------------------------------------
(* Oracle outputs the decision is checked on *)

Opt(k, vals) == {EmptyDict} \cup {k :> v : v \in vals}

DecideInner ==
    {a @@ b @@ c @@ d @@ e :
        a \in Opt("is_support_request", {JBool(TRUE), JBool(FALSE)}),
        b \in Opt("quality_assessment", {JStr("hot"), JStr("warm"), JStr("cold"), JNull}),
        c \in Opt("confidence_score",
                  {JNum(49), JNum(50), JNum(69), JNum(70), JNum(90), JNull}),
        d \in Opt("has_sufficient_info", {JBool(TRUE), JBool(FALSE)}),
        e \in Opt("extracted_data", {JNull, JDict(HotExtracted)})}

DecideInputs ==
    {OracleRaise, JNull, JList(<<>>), JDict(EmptyDict), JDict("analysis" :> JNull)}
    \cup {JDict(("analysis" :> JDict(i)) @@ r @@ s) :
            i \in DecideInner,
            r \in Opt("recommended_action",
                      {JStr("create_lead"), JStr("continue_conversation")}),
            s \in Opt("suggested_reply", {JStr("reply")})}

NoAnalysis == EmptyDict

DInit ==
    /\ dedup = {}
    /\ conv = NoConversations
    /\ completed = {}
    /\ leads = <<>>
    /\ tickets = <<>>
    /\ outbox = [p \in Phones |-> 0]
    /\ req = [r \in Reqs |-> IdleRequest]
    /\ din \in DecideInputs
    /\ dres = NoAnalysis
    /\ dbranch = "none"
    /\ dpc = "in"
    /\ FIdle

DAnalyze ==
    /\ dpc = "in"
    /\ dres' = AnalyzeMessageCompleteness(din)
    /\ dpc' = "analysed"
    /\ UNCHANGED <<din, dbranch, pvars, fvars>>

DDispatch ==
    /\ dpc = "analysed"
    /\ dbranch' = Branch(dres)
    /\ dpc' = "dispatched"
    /\ UNCHANGED <<din, dres, pvars, fvars>>

DNext == DAnalyze \/ DDispatch

SpecDecide == DInit /\ [][DNext]_vars

----------------------------------------------------------------------------
(* Claims about the decision (checked under SpecDecide) *)

Actions ==
    {"transfer_to_helpdesk", "create_lead_immediate", "nurture_and_qualify",
     "educate_and_build_interest"}

\* the fields of a returned analysis, read as the claims name them
SupportFlag(a) == a["is_support_request"] = JBool(TRUE)
QualityIs(a, q) == a["quality_assessment"] = JStr(q)
ConfidenceAtLeast(a, n) ==
    a["confidence_score"].t = "num" /\ a["confidence_score"].n >= n
SufficientFlag(a) == a["has_sufficient_info"] = JBool(TRUE)
Decided(a) == a["final_action"].s

\* C6: an analysis with is_support_request = true is decided as the support
\* transfer whatever its quality, confidence, has_sufficient_info and
\* recommended action, and the branch that runs is the support branch (not
\* the lead, nurture or educate branch).
C6_SupportDominates ==
    (dpc # "in" /\ SupportFlag(dres)) =>
        /\ Decided(dres) = "transfer_to_helpdesk"
        /\ dpc = "dispatched" => dbranch = "transfer_to_helpdesk"

C6_Witness ==
    /\ dpc = "dispatched"
    /\ SupportFlag(dres)
    /\ QualityIs(dres, "hot")
    /\ ConfidenceAtLeast(dres, 90)
    /\ SufficientFlag(dres)
    /\ dres["recommended_action"] = JStr("create_lead")
    /\ dbranch = "transfer_to_helpdesk"

\* C7: the decided final action is create_lead_immediate exactly when
\* is_support_request is false, quality is hot, confidence >= 0.7 (0.7
\* included) and the analysis' has_sufficient_info holds.
C7_CreateLeadExactly ==
    dpc # "in" =>
        ( Decided(dres) = "create_lead_immediate"
          <=> /\ ~SupportFlag(dres)
              /\ QualityIs(dres, "hot")
              /\ ConfidenceAtLeast(dres, 70)
              /\ SufficientFlag(dres) )

C7_Witness ==
    /\ dpc # "in"
    /\ Decided(dres) = "create_lead_immediate"
    /\ dres["confidence_score"] = JNum(70)

\* C9: when rules 1 and 2 do not match, the decision is nurture_and_qualify
\* exactly when quality is warm and confidence >= 0.5 (0.5 included) and
\* educate_and_build_interest otherwise (also for a hot analysis without
\* sufficient info or with confidence below 0.7); every input ends with one
\* of the four actions.
C9_NurtureElseEducate ==
    dpc # "in" =>
        /\ Decided(dres) \in Actions
        /\ ( /\ ~SupportFlag(dres)
             /\ ~( QualityIs(dres, "hot") /\ ConfidenceAtLeast(dres, 70)
                   /\ SufficientFlag(dres) ) )
           => IF QualityIs(dres, "warm") /\ ConfidenceAtLeast(dres, 50)
              THEN Decided(dres) = "nurture_and_qualify"
              ELSE Decided(dres) = "educate_and_build_interest"

C9_Witness ==
    /\ dpc # "in"
    /\ QualityIs(dres, "hot")
    /\ ConfidenceAtLeast(dres, 70)
    /\ ~SufficientFlag(dres)
    /\ ~SupportFlag(dres)
    /\ Decided(dres) = "educate_and_build_interest"

----------------------------------------------------------------------------
(* Claims about the pipeline *)

LastTurn(q) == q[Len(q)]

IsSuffix(a, b) == Len(a) <= Len(b) /\ SubSeq(b, Len(b) - Len(a) + 1, Len(b)) = a

DeliveriesOf(m) == {r \in Reqs : req[r].wamid = m}

\* the user turns stored for message id m in its sender's history
UserTurnsOf(m) ==
    {i \in 1..Len(conv[SenderOf(m)]) :
        /\ conv[SenderOf(m)][i].type = "user"
        /\ conv[SenderOf(m)][i].message = BodyOf(m)}

RECURSIVE SumUpserts(_)
SumUpserts(R) ==
    IF R = {} THEN 0
    ELSE LET r == CHOOSE x \in R : TRUE IN req[r].upserts + SumUpserts(R \ {r})

\* C1: of the requests that carry one message id, at most one passes the
\* duplicate check as fresh, under any interleaving.
C1_AtMostOneAdmitted ==
    \A r1, r2 \in Reqs :
        (r1 # r2 /\ req[r1].wamid = req[r2].wamid /\ req[r1].fresh) => ~req[r2].fresh

\* C2: over deliveries of one message id made one after the other, the
\* sender's history holds at most one user turn for it, exactly one once a
\* delivery of it has returned, and the record store got at most one
\* create/update for it.
C2_SequentialIdempotent ==
    \A m \in MsgIds :
        /\ Cardinality(UserTurnsOf(m)) <= 1
        /\ (\E r \in DeliveriesOf(m) : req[r].pc = "done") => Cardinality(UserTurnsOf(m)) = 1
        /\ SumUpserts(DeliveriesOf(m)) <= 1

C2_Witness ==
    \E r1, r2 \in Reqs :
        /\ r1 # r2
        /\ req[r1].wamid = req[r2].wamid
        /\ req[r1].pc = "done" /\ req[r1].out.status = "hot_lead_created"
        /\ req[r2].pc = "done" /\ req[r2].out.status = "duplicate"
        /\ Len(leads) = 1
        /\ Cardinality(UserTurnsOf(req[r1].wamid)) = 1

\* C3: a request whose message id is already marked when it is checked
\* returns 200 at once and changes no store: marker, histories, completion
\* markers, records and outbox stay as they are, and it never reaches the
\* oracle.
C3_DuplicateIsNoOp ==
    [][\A r \in Reqs :
          (req[r].pc = "idle" /\ req'[r].pc # "idle" /\ req'[r].wamid \in dedup) =>
              /\ req'[r].pc = "done"
              /\ req'[r].out.code = 200
              /\ req'[r].out.status = "duplicate"
              /\ ~req'[r].fresh /\ ~req'[r].appended /\ req'[r].upserts = 0
              /\ UNCHANGED stores]_vars

C3_Witness ==
    \E r \in Reqs :
        /\ req[r].pc = "done"
        /\ req[r].out.status = "duplicate"
        /\ req[r].wamid \in dedup
        /\ conv[req[r].phone] # <<>>

\* C4: once a request has stored its user turn, the sender's history holds
\* that turn (no concurrent append overwrites it; the cap is out of reach).
C4_NoLostUpdate ==
    \A r \in Reqs : req[r].appended => UserTurnsOf(req[r].wamid) # {}

\* C5: a stored history has at most 50 turns and every change of it is an
\* append: the new history is a suffix of the old one followed by the new
\* turn.
C5_CappedAppendOnly ==
    [][\A p \in Phones :
          conv'[p] # conv[p] =>
              /\ conv'[p] # <<>>
              /\ Len(conv'[p]) <= 50
              /\ IsSuffix(conv'[p], Append(conv[p], LastTurn(conv'[p])))]_vars

\* the positions of a request inside each branch of the webhook
LeadPcs ==
    {"lead_find", "lead_create", "lead_update", "lead_write", "lead_note", "note_write",
     "sys_get", "sys_set",
     "complete", "conf_set", "err_set", "err_send", "emergency"}

\* C8: the branch the webhook runs is the decided final action; the lead
\* branch (record create/update) runs only for create_lead_immediate.
C8_BranchIsDecision ==
    \A r \in Reqs :
        /\ req[r].pc \in LeadPcs => Decided(req[r].an) = "create_lead_immediate"
        /\ req[r].pc = "support" => Decided(req[r].an) = "transfer_to_helpdesk"
        /\ req[r].pc \in {"warm_get", "warm_set"} =>
               Decided(req[r].an) = "nurture_and_qualify"

\* the sufficient-info condition over consolidated facts, as the claim states it
HasContact(c) == Truthy(c.name) \/ Truthy(c.email)
HasInterest(c) == c.product_interest # {}
HasSpecificIntent(c) ==
    \E i \in 1..Len(c.specific_needs) : ~IsStr(c.specific_needs[i], GenericIntent)
FactsSufficient(c) == HasContact(c) /\ HasInterest(c) /\ HasSpecificIntent(c)

\* the facts of the conversation the request loaded, with its own message
FactsOf(q) == CollectTurn(q.ctx.collected_data, NewMessage(BodyOf(q.wamid), "user", q.an))

Analysed(q) == q.pc \notin {"idle", "context", "analyze", "done"}

\* C10: the decision uses has_sufficient_info of the consolidated facts of
\* the whole conversation: a hot, confident, non-support message is decided
\* create_lead_immediate exactly when those facts hold a contact signal, a
\* product interest and a specific intent.
C10_SufficiencyFromFacts ==
    \A r \in Reqs :
        ( /\ Analysed(req[r])
          /\ ~SupportFlag(req[r].an)
          /\ QualityIs(req[r].an, "hot")
          /\ ConfidenceAtLeast(req[r].an, 70) )
        => ( Decided(req[r].an) = "create_lead_immediate" <=> FactsSufficient(FactsOf(req[r])) )

----------------------------------------------------------------------------
(* Claims about the classifier adapter (checked under SpecDecide) *)

\* C11: every analysis the adapter returns is schema-complete and in range:
\* quality is hot, warm or cold, confidence is a number in [0,1],
\* is_support_request is a boolean and a reply text is present.
C11_SchemaComplete ==
    dpc # "in" =>
        /\ GetN(dres, "quality_assessment") \in {JStr("hot"), JStr("warm"), JStr("cold")}
        /\ GetN(dres, "confidence_score").t = "num"
        /\ GetN(dres, "confidence_score").n \in 0..100
        /\ GetN(dres, "is_support_request").t = "bool"
        /\ GetN(dres, "natural_response").t = "str"
        /\ GetN(dres, "natural_response").s # ""

\* the oracle call threw or timed out, or its text did not parse
OracleFailed(raw) == raw.t = "raise"

\* C12: when the oracle call throws, times out or returns unparseable text,
\* analyze returns the fallback analysis (cold, 0.1, no support request, no
\* sufficient info, the generic reply) and the request goes on with it.
C12_FallbackOnOracleFailure ==
    (dpc # "in" /\ OracleFailed(din)) =>
        /\ GetN(dres, "quality_assessment") = JStr("cold")
        /\ GetN(dres, "confidence_score") = JNum(10)
        /\ GetN(dres, "is_support_request") = JBool(FALSE)
        /\ GetN(dres, "has_sufficient_info") = JBool(FALSE)
        /\ GetN(dres, "natural_response") = JStr(FallbackReply)
        /\ GetN(dres, "final_action") = JStr("educate_and_build_interest")

C12_Witness ==
    /\ dpc = "dispatched"
    /\ OracleFailed(din)
    /\ dres = FallbackAnalysis
    /\ dbranch = "educate_and_build_interest"

----------------------------------------------------------------------------
(* Claims about the fallback in the pipeline *)

\* the call of analyze ends in its except branch
EndsInFallback(raw) ==
    \/ raw.t = "raise"
    \/ raw.t # "none" /\ EnsureCompatibilityRaises(raw)
    \/ raw.t = "dict" /\ ~EnsureCompatibilityRaises(raw)
                      /\ AddProfessionalLogicRaises(EnsureCompatibility(raw.d))

\* the analyses stored with the user turns of message id m
StoredAnalysesOf(m) == {conv[SenderOf(m)][i].analysis : i \in UserTurnsOf(m)}

\* C13: any two requests whose analyze call ended in the fallback path hold
\* identical analyses, whatever their oracle outputs, messages and histories,
\* and identical to every fallback stored with an earlier user turn.
C13_FallbackDeterministic ==
    \A r1, r2 \in Reqs :
        ( /\ Analysed(req[r1]) /\ EndsInFallback(req[r1].raw)
          /\ Analysed(req[r2]) /\ EndsInFallback(req[r2].raw) )
        => /\ req[r1].an = req[r2].an
           /\ \A m \in MsgIds : \A a \in StoredAnalysesOf(m) :
                  GetN(a, "missing_for_lead") = JList(<<"all_info">>) => a = req[r1].an

C13_Witness ==
    \E r1, r2 \in Reqs :
        /\ Analysed(req[r1]) /\ req[r1].raw = OracleRaise
        /\ Analysed(req[r2]) /\ req[r2].raw = OracleNullAnalysis
        /\ req[r1].wamid # req[r2].wamid
        /\ req[r1].ctx.message_count # req[r2].ctx.message_count
        /\ req[r1].an = req[r2].an
        /\ StoredAnalysesOf(req[r1].wamid) = {req[r2].an}

----------------------------------------------------------------------------
(* Claims about errors in the pipeline *)

\* C14: every admitted request ends with one of the four actions and a
\* non-error response, whatever the oracle, the record store and the
\* notifier do (the dedup and conversation stores answer).
C14_TotalOverOracle ==
    \A r \in Reqs :
        (req[r].pc = "done" /\ req[r].fresh) =>
            /\ req[r].out.code = 200
            /\ req[r].out.action \in Actions

----------------------------------------------------------------------------
(* Claims about the record store *)

\* the lead records of a sender: those whose phone normalizes to the sender's
LeadsOf(p) == {i \in 1..Len(leads) : CleanPhone(leads[i].phone) = CleanPhone(p)}

\* C15: the record store holds at most one lead record per normalized phone.
C15_OneLeadPerPhone ==
    \A p \in Phones : Cardinality(LeadsOf(p)) <= 1

----------------------------------------------------------------------------
(* Phone normalization applied twice (SpecNormalize) *)

\* no request and empty stores
PIdle ==
    /\ dedup = {}
    /\ conv = NoConversations
    /\ completed = {}
    /\ leads = <<>>
    /\ tickets = <<>>
    /\ outbox = [p \in Phones |-> 0]
    /\ req = [r \in Reqs |-> IdleRequest]

MaxFragments == 3

\* pieces of phone-like strings: digits, the tokens that are stripped, and
\* the two halves of the transport prefix
PhoneFragments ==
    {TransportPrefix, <<"w", "h", "a", "t", "s">>, <<"a", "p", "p", ":">>,
     <<"+">>, <<" ">>, <<"5">>, <<"9">>}

RECURSIVE Concatenations(_)
Concatenations(n) ==
    IF n = 0 THEN {<<>>}
    ELSE LET shorter == Concatenations(n - 1)
         IN  shorter \cup {s \o f : s \in shorter, f \in PhoneFragments}

PhoneInputs == Concatenations(MaxFragments)

NInit ==
    /\ PIdle
    /\ DIdle
    /\ fin \in PhoneInputs
    /\ fout = <<>>
    /\ fpc = "in"

\* clean_phone = phone_number.replace(...)...
NormalizeOnce ==
    /\ fpc = "in"
    /\ fout' = <<CleanPhone(fin)>>
    /\ fpc' = "once"
    /\ UNCHANGED <<fin, pvars, dvars>>

\* the normalized value is normalized again
NormalizeAgain ==
    /\ fpc = "once"
    /\ fout' = Append(fout, CleanPhone(fout[1]))
    /\ fpc' = "twice"
    /\ UNCHANGED <<fin, pvars, dvars>>

NNext == NormalizeOnce \/ NormalizeAgain

SpecNormalize == NInit /\ [][NNext]_vars

\* C16: normalizing a normalized phone returns it unchanged.
C16_NormalizeIdempotent ==
    fpc = "twice" => fout[2] = fout[1]

----------------------------------------------------------------------------
(* _extract_collected_data on bounded histories (SpecCollect) *)

MaxHistory == 3

ScalarFields == {"name", "email", "location", "budget_range", "urgency"}

ScalarValues == {JNull, JStr(""), JStr("a"), JStr("b")}

\* the extracted_data of a stored turn: one scalar field, or name and budget
ExtractedKinds ==
    {EmptyDict}
    \cup {k :> v : k \in ScalarFields, v \in ScalarValues}
    \cup {("name" :> v) @@ ("budget_range" :> w) : v, w \in {JNull, JStr("a")}}

\* stored turns: user turns carry the analysis, assistant turns the action
TurnKinds ==
    {NewMessage("m", "user", [extracted_data |-> JDict(e)]) : e \in ExtractedKinds}
    \cup {NewMessage("reply", "assistant", [action |-> JStr("nurture_and_qualify")])}

RECURSIVE HistoriesUpTo(_)
HistoriesUpTo(n) ==
    IF n = 0 THEN {<<>>}
    ELSE LET shorter == HistoriesUpTo(n - 1)
         IN  shorter \cup {Append(h, t) : h \in shorter, t \in TurnKinds}

CInit ==
    /\ PIdle
    /\ DIdle
    /\ fin \in HistoriesUpTo(MaxHistory)
    /\ fout = <<>>
    /\ fpc = "in"

Collect ==
    /\ fpc = "in"
    /\ fout' = <<ExtractCollectedData(fin)>>
    /\ fpc' = "collected"
    /\ UNCHANGED <<fin, pvars, dvars>>

CNext == Collect

SpecCollect == CInit /\ [][CNext]_vars

\* the value of scalar field k a turn extracted (null when it has none)
ExtractedValue(turn, k) ==
    GetN(Get(turn.analysis, "extracted_data", JDict(EmptyDict)).d, k)

\* the turns of h with a non-empty value for k
TurnsWith(h, k) == {i \in 1..Len(h) : Truthy(ExtractedValue(h[i], k))}

LatestOf(S) == CHOOSE i \in S : \A j \in S : j <= i

\* C17: each consolidated scalar is the value of the latest turn that has a
\* non-empty value for it, and null when no turn has one.
C17_LastNonNullWins ==
    fpc = "collected" =>
        \A k \in ScalarFields :
            fout[1][k] = IF TurnsWith(fin, k) = {} THEN JNull
                         ELSE ExtractedValue(fin[LatestOf(TurnsWith(fin, k))], k)

\* budget set in turn 1, overwritten in turn 2, a null in turn 3
C17_Witness ==
    /\ fpc = "collected"
    /\ Len(fin) = 3
    /\ ExtractedValue(fin[1], "budget_range") = JStr("a")
    /\ ExtractedValue(fin[2], "budget_range") = JStr("b")
    /\ "budget_range" \in DOMAIN fin[3].analysis["extracted_data"].d
    /\ ExtractedValue(fin[3], "budget_range") = JNull
    /\ fout[1]["budget_range"] = JStr("b")

----------------------------------------------------------------------------
(* Turns appended to one sender's conversation, the context read after each *)
(* (SpecAppend)                                                             *)

MaxAppends == 52

\* only the first turns of the conversation name a product or the sender
MaxInterestTurns == 2

InterestTurn(p) ==
    NewMessage("m", "user", [extracted_data |-> JDict([product_interest |-> JList(<<p>>)])])

PlainTurn == NewMessage("m", "user", [extracted_data |-> JDict(EmptyDict)])

\* a user turn whose analysis extracted the sender's name
NameTurn == NewMessage("m", "user", [extracted_data |-> JDict([name |-> JStr("Ana")])])

AppendKinds(n) ==
    IF n < MaxInterestTurns
    THEN {InterestTurn("sofa"), InterestTurn("mesa"), NameTurn, PlainTurn}
    ELSE {PlainTurn}

\* the product interests get_conversation_context returns for PhoneA
ProductInterests(store) == GetConversationContext(store, PhoneA).collected_data.product_interest

\* fin: the number of turns appended; fout: the product interests returned
\* by the last two context reads
AInit ==
    /\ PIdle
    /\ DIdle
    /\ fin = 0
    /\ fout = <<ProductInterests(conv)>>
    /\ fpc = "append"

\* add_message_to_conversation, by one process: read, append, limit, write
AppendTurn(t) ==
    /\ fpc = "append"
    /\ fin < MaxAppends
    /\ conv' = [conv EXCEPT ![PhoneA] =
                    AppendedHistory(GetConversationHistory(conv, PhoneA), t)]
    /\ fin' = fin + 1
    /\ fpc' = "context"
    /\ UNCHANGED <<fout, dedup, completed, leads, tickets, outbox, req, dvars>>

\* get_conversation_context after the append
ReadContext ==
    /\ fpc = "context"
    /\ fout' = <<fout[Len(fout)], ProductInterests(conv)>>
    /\ fpc' = "append"
    /\ UNCHANGED <<fin, pvars, dvars>>

ANext == (\E t \in AppendKinds(fin) : AppendTurn(t)) \/ ReadContext

SpecAppend == AInit /\ [][ANext]_vars

\* C18: the product interests returned after an append contain those
\* returned before it.
C18_InterestsMonotonic ==
    Len(fout) = 2 => fout[1] \subseteq fout[2]

----------------------------------------------------------------------------
(* The stage of bounded conversations (SpecStage) *)

MaxStageHistory == 3

StageExtracted ==
    {EmptyDict,
     [name |-> JStr("Ana")],
     [email |-> JStr("ana@x")],
     [product_interest |-> JList(<<"sofa">>)],
     [intent |-> JStr(GenericIntent)],
     [name |-> JStr("Ana"), product_interest |-> JList(<<"sofa">>),
      intent |-> JStr("compra_sofa")]}

StageTurns ==
    {NewMessage("m", "user", s @@ [extracted_data |-> JDict(e)]) :
        s \in Opt("is_support_request", {JBool(TRUE), JBool(FALSE)}),
        e \in StageExtracted}
    \cup {NewMessage("reply", "assistant", [action |-> JStr("nurture_and_qualify")])}

RECURSIVE StageHistories(_)
StageHistories(n) ==
    IF n = 0 THEN {<<>>}
    ELSE LET shorter == StageHistories(n - 1)
         IN  shorter \cup {Append(h, t) : h \in shorter, t \in StageTurns}

SInit ==
    /\ PIdle
    /\ DIdle
    /\ fin \in StageHistories(MaxStageHistory)
    /\ fout = <<>>
    /\ fpc = "in"

\* get_conversation_context on the history: collected_data and stage
DeriveStage ==
    /\ fpc = "in"
    /\ fout' = <<ExtractCollectedData(fin), ContextStage(fin)>>
    /\ fpc' = "staged"
    /\ UNCHANGED <<fin, pvars, dvars>>

SNext == DeriveStage

SpecStage == SInit /\ [][SNext]_vars

LastFlagsSupport(h) == GetN(h[Len(h)].analysis, "is_support_request") = JBool(TRUE)

HasRecordedIntent(c) == c.specific_needs # <<>>

\* C19: for a non-empty history the stage is support if the most recent
\* turn flags a support request, else ready_for_lead if the consolidated
\* facts have a contact signal, a product interest and a recorded intent,
\* else gathering_info if they have an interest or an intent, else
\* qualification.
C19_StageFirstMatch ==
    (fpc = "staged" /\ fin # <<>>) =>
        fout[2] = CASE LastFlagsSupport(fin) -> "support"
                    [] ~LastFlagsSupport(fin)
                       /\ HasContact(fout[1]) /\ HasInterest(fout[1])
                       /\ HasRecordedIntent(fout[1]) -> "ready_for_lead"
                    [] ~LastFlagsSupport(fin)
                       /\ ~(HasContact(fout[1]) /\ HasInterest(fout[1])
                            /\ HasRecordedIntent(fout[1]))
                       /\ (HasInterest(fout[1]) \/ HasRecordedIntent(fout[1])) ->
                           "gathering_info"
                    [] OTHER -> "qualification"

\* complete facts, and the most recent turn asks for support
C19_Witness ==
    /\ fpc = "staged"
    /\ Len(fin) = 2
    /\ LastFlagsSupport(fin)
    /\ HasContact(fout[1]) /\ HasInterest(fout[1]) /\ HasRecordedIntent(fout[1])
    /\ fout[2] = "support"

----------------------------------------------------------------------------
(* Claims about record-store failures (checked under SpecSeq) *)

\* the positions of a request in the except branch of _create_hot_lead_optimized
FailurePcs == {"err_set", "err_send"}

\* C20: when the record store fails during lead creation the request goes
\* on to a 200 response that reports lead_creation_failed with the error,
\* reports the reply as sent as it was, and sets no completion marker and
\* no record on the way.
C20_LeadFailureDegrades ==
    [][\A r \in Reqs :
          /\ (req'[r].pc \in FailurePcs /\ req'[r] # req[r]) =>
                 UNCHANGED <<completed, leads>>
          /\ (req[r].pc \in FailurePcs /\ req'[r] # req[r]) =>
                 /\ UNCHANGED <<completed, leads>>
                 /\ req'[r].pc \in {"err_send", "done"}
          /\ (req[r].pc = "err_send" /\ req'[r].pc = "done") =>
                 /\ req'[r].out.code = 200
                 /\ req'[r].out.status = "lead_creation_failed"
                 /\ req'[r].out.error
                 /\ req'[r].out.message_sent = req[r].sent]_vars

\* a first qualifying message whose record create failed: reply reported as
\* sent, no record, no completion marker
C20_Witness ==
    \E r \in Reqs :
        /\ req[r].pc = "done"
        /\ req[r].out.status = "lead_creation_failed"
        /\ req[r].out.message_sent
        /\ leads = <<>>
        /\ req[r].phone \notin completed

----------------------------------------------------------------------------
(* Claims about the notifier (checked under SpecSeq) *)

\* C21: the request goes on after the send of its reply whether or not the
\* transport accepted it, and it holds message_sent true exactly when the
\* transport accepted the reply.
C21_SentOnlyIfAccepted ==
    [][\A r \in Reqs :
          (req[r].pc = "reply" /\ req'[r].pc = "asst_set") =>
              (req'[r].sent <=> outbox'[req[r].phone] = outbox[req[r].phone] + 1)]_vars

----------------------------------------------------------------------------
(* Claims about the refusal of requests (checked under SpecGate) *)

Arrives(r) == req[r].pc = "idle" /\ req'[r].pc # "idle"

BadSignature(q) == q.sig # ExpectedSignature(q.form)

LacksField(q) ==
    ~Truthy(GetN(q.form, "SmsMessageSid")) \/ ~Truthy(GetN(q.form, "Body"))

\* the request ended with the code, no store was written, no oracle call
\* was made and nothing was sent
RefusedWith(r, code) ==
    /\ req'[r].pc = "done"
    /\ req'[r].out.code = code
    /\ req'[r].raw = NoOracleAnswer
    /\ UNCHANGED stores

\* C22: a request whose signature is absent or is not the one of its form
\* data is refused with 403, whatever its fields; a request with the right
\* signature and no message id or no body is refused with 400; neither
\* writes a store, calls the oracle or sends a message.
C22_RefusedBeforeProcessing ==
    [][\A r \in Reqs :
          Arrives(r) =>
              /\ BadSignature(req'[r]) => RefusedWith(r, 403)
              /\ (~BadSignature(req'[r]) /\ LacksField(req'[r])) => RefusedWith(r, 400)]_vars

----------------------------------------------------------------------------
(* Claims about an unreachable Redis (checked under SpecStore) *)

\* C23: a request that met an unreachable store at one of its reads or
\* writes does nothing more than fail: it is on its way to the 500
\* response or has returned it.
C23_StoreFailureIsFatal ==
    \A r \in Reqs :
        req[r].unreachable =>
            \/ req[r].pc = "emergency"
            \/ req[r].pc = "done" /\ req[r].out.code = 500

----------------------------------------------------------------------------
(* The fields of an existing record under an update (SpecMerge) *)

\* an empty field of a record is read as False
Unset == JBool(FALSE)

CurrentNames ==
    {DefaultLeadName, <<"Lead", "HOT", "-", "Sofa">>, <<"Ana", "-", "Consulta", "(HOT)">>}

CurrentLeads ==
    [name : {JStr(n) : n \in CurrentNames},
     contact_name : {Unset, JStr("Ana")},
     email_from : {Unset, JStr("a@x")},
     city : {Unset, JStr("Quito")}]

\* what format_lead_data_professional passes on
LeadDatas ==
    [name : {JStr(<<"Bea", "-", "Consulta", "(HOT)">>), JStr(<<"Lead", "HOT", "-", "Sofa">>)},
     contact_name : {JNull, JStr(" "), JStr("Ana"), JStr("Bea")},
     email_from : {JNull, JStr("a@x"), JStr("b@x")},
     city : {JNull, JStr("Quito"), JStr("Loja")}]

\* fin: the record found and the data of the new message; fout: the record
\* after the update
MInit ==
    /\ PIdle
    /\ DIdle
    /\ fin \in [current : CurrentLeads, lead_data : LeadDatas]
    /\ fout = <<>>
    /\ fpc = "in"

\* create_lead_from_whatsapp, lines 59-66, on a record that exists
UpdateLeadFields ==
    /\ fpc = "in"
    /\ fout' = <<WriteLead(fin.current,
                           UpdateData(fin.current, ValidateBasicLeadData(fin.lead_data)))>>
    /\ fpc' = "out"
    /\ UNCHANGED <<fin, pvars, dvars>>

MNext == UpdateLeadFields

SpecMerge == MInit /\ [][MNext]_vars

MergeFields == {"name", "contact_name", "email_from", "city"}

\* the value may be replaced: no value, or a generic lead name
Overwritable(f, v) ==
    IF f = "name" THEN IsGenericName(v.s) ELSE ~Truthy(v)

\* C24: the update changes a field of the record only if the incoming
\* value is not null and the field held no value or a placeholder.
C24_MergeKeepsRealValues ==
    fpc = "out" =>
        \A f \in MergeFields :
            fout[1][f] # fin.current[f] =>
                /\ GetN(fin.lead_data, f) # JNull
                /\ Overwritable(f, fin.current[f])

----------------------------------------------------------------------------
(* Claims about the description of a record *)

IsPrefix(a, b) == Len(a) <= Len(b) /\ SubSeq(b, 1, Len(a)) = a

\* C25: every write to a record's description keeps the sections it had,
\* in order, and adds exactly one section after them.
C25_DescriptionAppendOnly ==
    [][\A i \in 1..Len(leads) :
          leads'[i].description # leads[i].description =>
              /\ IsPrefix(leads[i].description, leads'[i].description)
              /\ Len(leads'[i].description) = Len(leads[i].description) + 1]_vars

----------------------------------------------------------------------------
(* Claims about the reset endpoint (checked under SpecReset) *)

\* the endpoint is called for the sender p, named with or without prefix
ResetCalledFor(p) ==
    /\ fpc = "off"
    /\ fpc' = "reset"
    /\ Remove(fin'[1], TransportPrefix) = Remove(p, TransportPrefix)

\* C26: after the reset endpoint is called for a sender, the context of
\* that sender is the one of a new conversation with an empty history, and
\* the sender's completion marker is absent.
C26_ResetClearsSender ==
    [][\A p \in Phones :
          ResetCalledFor(p) =>
              /\ GetConversationContext(conv', p).is_new_conversation
              /\ GetConversationHistory(conv', p) = <<>>
              /\ p \notin completed']_vars

----------------------------------------------------------------------------
(* Claims about the completion marker (checked under SpecSeq) *)

Returns(r) == req[r].pc # "done" /\ req'[r].pc = "done"

\* the marker is written by a request of that sender whose record create or
\* update has succeeded (on the record the lookup returned for the sender)
MarkerFollowsRecord ==
    completed' # completed =>
        \E r \in Reqs :
            /\ req[r].pc = "complete"
            /\ req[r].upserts > 0
            /\ req[r].lead \in 1..Len(leads)
            /\ completed' = completed \cup {req[r].phone}

\* a new message of a sender whose marker is set enters the pipeline
StillProcessed(r) ==
    (Arrives(r) /\ req'[r].phone \in completed /\ req'[r].wamid \notin dedup) =>
        req'[r].pc = "context"

\* the response carries an entry that tells the message came after completion
FlaggedPostCompletion(out) == "post_completion" \in DOMAIN out

\* a request that returns without having written the marker itself, while
\* the marker of its sender is set, came after the completion
ReturnsAfterCompletion(r) ==
    /\ Returns(r)
    /\ req[r].fresh
    /\ req[r].pc \notin {"complete", "conf_set"}
    /\ req[r].phone \in completed

\* C27: the marker of a sender is set only after a record create or update
\* for that sender succeeded; a later message of that sender is processed
\* like any other, and its response is flagged as post-completion.
C27_MarkerAfterLeadAndFlagged ==
    [][/\ MarkerFollowsRecord
       /\ \A r \in Reqs :
             /\ StillProcessed(r)
             /\ ReturnsAfterCompletion(r) => FlaggedPostCompletion(req'[r].out)]_vars

----------------------------------------------------------------------------
(* Claims about the fallback analysis in the pipeline (checked under SpecSeq) *)

\* the request is being processed with the fallback as its analysis
RunsOnFallback(q) == q.pc \notin {"idle", "done"} /\ q.an = FallbackAnalysis

\* C28: a request whose analysis is the fallback only stores its turns and
\* sends its reply: none of its steps writes a record, a ticket or a
\* completion marker, and it returns educate_and_build_interest.
C28_FallbackEducatesOnly ==
    [][\A r \in Reqs :
          (RunsOnFallback(req[r]) /\ req'[r] # req[r]) =>
              /\ UNCHANGED <<leads, tickets, completed>>
              /\ req'[r].upserts = 0
              /\ req'[r].pc \in {"user_set", "mark", "reply", "asst_set", "done"}
              /\ req'[r].pc = "done" =>
                    /\ req'[r].out.code = 200
                    /\ req'[r].out.status = "cold_lead_education"
                    /\ req'[r].out.action = "educate_and_build_interest"]_vars

\* a message whose oracle call failed has returned: its user turn holds the
\* fallback and the stores of records and markers are empty
C28_Witness ==
    \E r \in Reqs :
        /\ req[r].pc = "done"
        /\ req[r].out.action = "educate_and_build_interest"
        /\ \E i \in UserTurnsOf(req[r].wamid) :
               conv[req[r].phone][i].analysis = FallbackAnalysis
        /\ leads = <<>>
        /\ tickets = <<>>
        /\ completed = {}

----------------------------------------------------------------------------
(* Claims about termination (checked under SpecLive) *)

\* C29: every admitted request eventually returns a response, also when
\* the oracle, the record store or the notifier never answers.
C29_EveryAdmittedReturns ==
    \A r \in Reqs : req[r].fresh ~> (req[r].pc = "done")

----------------------------------------------------------------------------
(* Claims about the order of the steps of a request (checked under SpecSeq) *)

\* the request appends the assistant turn that holds its natural response
AppendsAssistantTurn(r) == req[r].pc = "asst_set" /\ conv' # conv

\* the decided branch writes to the record store
WritesRecord(a) == Branch(a) \in {"create_lead_immediate", "transfer_to_helpdesk"}

\* a record-store write of the request has succeeded or failed
RecordWriteAttempted(q) == q.upserts > 0 \/ q.pc \in FailurePcs

\* C30: when the assistant turn of a message is appended, its context was
\* loaded, its analysis made, its user turn appended, and, if its branch
\* writes a record, that write has been attempted.
C30_AssistantTurnLast ==
    [][\A r \in Reqs :
          AppendsAssistantTurn(r) =>
              /\ req[r].fresh
              /\ req[r].raw # NoOracleAnswer
              /\ req[r].appended
              /\ WritesRecord(req[r].an) => RecordWriteAttempted(req[r])]_vars

----------------------------------------------------------------------------
(* Claims about the recorded intents (checked under SpecStage) *)

\* the intent a stored turn extracted (null when it has none)
IntentOf(turn) == ExtractedValue(turn, "intent")

\* the turns of h that are the first to extract their intent
FirstMentions(h) ==
    {i \in 1..Len(h) : /\ Truthy(IntentOf(h[i]))
                       /\ \A j \in 1..(i - 1) : IntentOf(h[j]) # IntentOf(h[i])}

NoRepeats(q) == \A i, j \in 1..Len(q) : q[i] = q[j] => i = j

\* needs lists the intents of h in the order of their first mention
InFirstMentionOrder(needs, h) ==
    /\ SeqToSet(needs) = {IntentOf(h[i]) : i \in FirstMentions(h)}
    /\ \A a, b \in 1..Len(needs) :
           a < b => \E i, j \in FirstMentions(h) :
                        i < j /\ IntentOf(h[i]) = needs[a] /\ IntentOf(h[j]) = needs[b]

\* every distinct intent once, in the order of first mention
DistinctIntentsInOrder ==
    fpc = "staged" =>
        /\ NoRepeats(fout[1].specific_needs)
        /\ InFirstMentionOrder(fout[1].specific_needs, fin)

\* C31: specific_needs holds every distinct intent once, in the order of
\* first mention, and never holds the generic general-information intent.
C31_DistinctNonGenericIntents ==
    /\ DistinctIntentsInOrder
    /\ fpc = "staged" => ~InSeq(JStr(GenericIntent), fout[1].specific_needs)

----------------------------------------------------------------------------
(* The product_interest list of get_conversation_context (SpecInterest) *)

MaxInterestHistory == 3

Products == {"sofa", "mesa", "cama"}

\* the product_interest lists a turn may extract
InterestLists == {<<>>, <<"sofa">>, <<"mesa">>, <<"cama">>, <<"sofa", "mesa">>,
                  <<"mesa", "sofa">>}

InterestTurns ==
    {NewMessage("m", "user", [extracted_data |-> JDict([product_interest |-> JList(q)])]) :
        q \in InterestLists}

RECURSIVE InterestHistories(_)
InterestHistories(n) ==
    IF n = 0 THEN {<<>>}
    ELSE LET shorter == InterestHistories(n - 1)
         IN  shorter \cup {Append(h, t) : h \in shorter, t \in InterestTurns}

\* list(a_set): the members once each, in the iteration order of the set,
\* which follows the hashes of the strings (salted per interpreter process)
ListOfSet(S) ==
    {q \in [1..Cardinality(S) -> S] : \A i, j \in 1..Cardinality(S) : q[i] = q[j] => i = j}

\* fin: the stored history; fout: the lists returned by the reads so far
IInit ==
    /\ PIdle
    /\ DIdle
    /\ fin \in InterestHistories(MaxInterestHistory)
    /\ fout = <<>>
    /\ fpc = "in"

\* get_conversation_context(...)["collected_data"]["product_interest"],
\* read twice from the same stored history
ReadInterests ==
    /\ fpc = "in"
    /\ Len(fout) < 2
    /\ \E q \in ListOfSet(ExtractCollectedData(fin).product_interest) :
           fout' = Append(fout, q)
    /\ fpc' = IF Len(fout) = 1 THEN "listed" ELSE "in"
    /\ UNCHANGED <<fin, pvars, dvars>>

INext == ReadInterests

SpecInterest == IInit /\ [][INext]_vars

\* the products of q not yet in seen, appended to seen in the order of q
RECURSIVE AppendUnseen(_, _)
AppendUnseen(seen, q) ==
    IF q = <<>> THEN seen
    ELSE AppendUnseen(IF InSeq(Head(q), seen) THEN seen ELSE Append(seen, Head(q)), Tail(q))

\* the products of h in the order of their first mention
RECURSIVE FirstMentioned(_)
FirstMentioned(h) ==
    IF h = <<>> THEN <<>>
    ELSE AppendUnseen(FirstMentioned(SubSeq(h, 1, Len(h) - 1)),
                      ExtractedValue(h[Len(h)], "product_interest").q)

\* no product is listed twice (this part holds)
InterestsListedOnce == \A i \in 1..Len(fout) : NoRepeats(fout[i])

\* C32: the product_interest list has no duplicates, is in the order of first
\* mention, and two reads of the same history return the same list.
C32_InterestsInMentionOrder ==
    /\ InterestsListedOnce
    /\ \A i \in 1..Len(fout) : fout[i] = FirstMentioned(fin)
    /\ Len(fout) = 2 => fout[1] = fout[2]

----------------------------------------------------------------------------
(* Claims about the stored turns (checked under SpecSeq) *)

\* C33: in every stored history only user turns carry a non-empty analysis.
C33_AnalysisOnlyOnUserTurns ==
    \A k \in ConversationKeys : \A i \in 1..Len(conv[k]) :
        conv[k][i].type # "user" => conv[k][i].analysis = EmptyDict

----------------------------------------------------------------------------
(* Concurrent requests and one call of the reset endpoint at any moment *)
(* (SpecFrame)                                                           *)

NextFrame ==
    \/ Next
    \/ \E phone_number \in Phones : ResetConversation(phone_number)

SpecFrame == Init /\ [][NextFrame]_vars

\* the step is one of a request of sender p, or the reset called for p
ActsFor(p) ==
    \/ \E r \in Reqs : req'[r] # req[r] /\ p \in {req[r].phone, req'[r].phone}
    \/ ResetCalledFor(p)

\* what the conversation service holds of sender p: history, consolidated
\* facts, stage and completion marker
SenderState(store, done, p) ==
    LET history == GetConversationHistory(store, p)
    IN  <<history, ExtractCollectedData(history), ContextStage(history), p \in done>>

\* C34: every step acts for one sender, and leaves the history, the
\* consolidated facts, the stage and the completion marker of every other
\* sender unchanged.
C34_SendersIndependent ==
    [][/\ \E a \in Phones : ActsFor(a)
       /\ \A a \in Phones : ActsFor(a) =>
              \A b \in Phones \ {a} :
                  SenderState(conv', completed', b) = SenderState(conv, completed, b)]_vars

\* both senders have a history, one request of each is in flight, and only
\* the conversation of PhoneA is completed
C34_Witness ==
    /\ conv[PhoneA] # <<>>
    /\ conv[PhoneB] # <<>>
    /\ PhoneA \in completed
    /\ PhoneB \notin completed
    /\ \E r, s \in Reqs : /\ req[r].phone = PhoneA /\ req[s].phone = PhoneB
                          /\ req[r].pc \notin {"idle", "done"}
                          /\ req[s].pc \notin {"idle", "done"}

----------------------------------------------------------------------------
(* Claims about Redis failures (checked under SpecStore) *)

\* C35: an append, also one that follows a failed read of the history, keeps
\* the turns the sender's stored history already has (the histories here
\* stay below the cap).
C35_FailedReadLosesNothing ==
    [][\A p \in Phones :
          conv'[p] # conv[p] => IsPrefix(conv[p], conv'[p])]_vars

\* the user turn of message id m is in the stored history of its sender
UserTurnStored(m) ==
    \E i \in 1..Len(conv[SenderOf(m)]) :
        /\ conv[SenderOf(m)][i].type = "user"
        /\ conv[SenderOf(m)][i].message = BodyOf(m)

\* an id is marked only when its user turn is stored
MarkedOnlyIfStored ==
    \A m \in MsgIds : (m \in dedup' /\ m \notin dedup) => UserTurnStored(m)

\* a request that returns HTTP 500 without a record-store call of its own
\* leaves its id unmarked
FailedLeavesUnmarked ==
    \A r \in Reqs :
        (Returns(r) /\ req'[r].out.code = 500 /\ req'[r].upserts = 0) =>
            req[r].wamid \notin dedup'

\* C36: a message id is marked as processed only if its user turn is stored
\* in the sender's conversation, and a request that ends in HTTP 500 before
\* its action was executed leaves its id unmarked.
C36_MarkedOnlyAfterPersisted ==
    [][MarkedOnlyIfStored /\ FailedLeavesUnmarked]_vars

----------------------------------------------------------------------------
(* Claims about the consolidated scalars under appends (SpecAppend) *)

\* the consolidated facts get_conversation_context returns for PhoneA
FactsIn(store) == GetConversationContext(store, PhoneA).collected_data

\* C37: a consolidated scalar fact that is non-null before an append is
\* non-null after it, also beyond 50 appended turns.
C37_ScalarsNeverRevert ==
    [][\A k \in ScalarFields :
          Truthy(FactsIn(conv)[k]) => Truthy(FactsIn(conv')[k])]_vars

----------------------------------------------------------------------------
(* Claims about the stage between messages (checked under SpecSeq) *)

\* the user turns of a history
UserTurns(h) == {i \in 1..Len(h) : h[i].type = "user"}

\* the sender's last message was flagged as a support request
LastMessageFlagsSupport(h) ==
    /\ UserTurns(h) # {}
    /\ GetN(h[LatestOf(UserTurns(h))].analysis, "is_support_request") = JBool(TRUE)

\* C38: once the request of a support-flagged message has returned, and
\* until the sender's next message arrives, the stage of the sender's
\* context is support, whatever assistant or system turns were recorded
\* after the message.
C38_SupportStageHolds ==
    \A p \in Phones :
        (InFlight = {} /\ LastMessageFlagsSupport(conv[p])) =>
            ContextStage(conv[p]) = "support"

----------------------------------------------------------------------------
(* Claims about the record lookup (checked under SpecSeq) *)

\* the lookup of request r returns an existing record
LookupMatches(r) == req[r].pc = "lead_find" /\ req'[r].pc = "lead_update"

\* request r writes the record it looked up
UpdatesRecord(r) ==
    /\ req[r].pc \in {"lead_write", "note_write"}
    /\ leads' # leads

\* C39: the record a lookup returns, and the record a request then updates,
\* has the normalized phone of the request's sender.
C39_LookupMatchesEqualPhone ==
    [][\A r \in Reqs :
          /\ LookupMatches(r) =>
                 CleanPhone(leads[req'[r].lead].phone) = CleanPhone(req[r].phone)
          /\ (UpdatesRecord(r) /\ req[r].lead \in 1..Len(leads)) =>
                 CleanPhone(leads[req[r].lead].phone) = CleanPhone(req[r].phone)]_vars

====
